---- MODULE Spec2Model ----
(***************************************************************************)
(* Job_Agent worker pipeline: the scheduler, the five BullMQ queues and    *)
(* the five stage workers (Scout, Normalize, FitScore, Materials,          *)
(* Compliance) acting on the Postgres tables job_postings, followups,      *)
(* resume_versions and applications.                                       *)
(*                                                                         *)
(* Every `await` of a handler that touches the store or a queue is one     *)
(* step of the execution; a reasoning-service call has no effect on the    *)
(* shared state and is taken together with the statement that follows it.  *)
(***************************************************************************)
EXTENDS Integers, Sequences, FiniteSets, Bags, TLC

VARIABLES
    job_postings,       \* table job_postings: sequence of rows, id = index
    followups,          \* table followups: sequence of rows
    resume_versions,    \* table resume_versions: sequence of rows, id = index
    applications,       \* table applications: sequence of rows
    waiting,            \* per queue: bag of tasks waiting for a worker
    running,            \* per queue: bag of executions in progress
    redeliveries,       \* number of redeliveries / retries the broker has made
    fired,              \* number of times the scheduler has fired
    discovered,         \* history: bag of source job ids runScout ran its INSERT for
    normalizeEnqueued,  \* history: bag of posting ids given to normalizeQueue.add
    delivered,          \* history: set of <<queue, jobId>> handed to a worker
    boards,             \* environment: the jobs each target's board lists
    rejected,           \* history: posting ids a failed check wrote Drafting for
    failed              \* history: the kinds of external call that have failed

vars == <<job_postings, followups, resume_versions, applications, waiting,
          running, redeliveries, fired, discovered, normalizeEnqueued, delivered,
          boards, rejected, failed>>

store == <<job_postings, followups, resume_versions, applications>>

-----------------------------------------------------------------------------
(* Bounds of the model *)

NumTargets == 2        \* how many of the GREENHOUSE_TARGETS are modelled
MaxPostings == 1       \* early-career postings on the boards of a pipeline run
MaxRedeliveries == 1   \* redeliveries and retries the broker makes in a run
MaxFires == 1          \* times the scheduler fires in a run
MaxDay == 1            \* days new Date() ranges over: 0..MaxDay

-----------------------------------------------------------------------------
(* Values *)

\* An optional value (undefined / null / SQL NULL) is <<>>, a present one <<v>>.
Missing == <<>>
Some(v) == <<v>>

\* a ?? d
OrElse(opt, d) == IF opt = Missing THEN d ELSE opt[1]

\* (s as string) || d : a missing or empty string falls through to d
OrDefault(opt, d) == IF opt = Missing \/ opt[1] = "" THEN d ELSE opt[1]

\* truthiness of an optional string (materials.coverLetter ? .. : null)
Truthy(opt) == opt # Missing /\ opt[1] # ""

\* JSON.stringify(v)
Stringify(v) == [json |-> v]

\* SQL COALESCE(param, column) on a NOT NULL column, and on a nullable one
COALESCE(param, column) == IF param = Missing THEN column ELSE param[1]
\* SET column = param, whatever param is
SetToParam(param, column) == param

COALESCEnullable(param, column) == IF param = Missing THEN column ELSE param

\* A JS number to one binary place: <<i, h>> stands for i + h/2, h in {0, 1}
Num(i) == <<i, 0>>
Half(i) == <<i, 1>>
IsInteger(x) == x[2] = 0
Geq(a, b) == 2 * a[1] + a[2] >= 2 * b[1] + b[2]

\* Math.max, Math.min
Max(a, b) == IF Geq(a, b) THEN a ELSE b
Min(a, b) == IF Geq(b, a) THEN a ELSE b

FIT_THRESHOLD == 60

Queues == {"scout", "normalize", "fit-score", "materials", "compliance"}

\* the options of the scout and the normalize worker exchanged
ConcurrencySwapped(q) ==
    CASE q = "scout"      -> 5
      [] q = "normalize"  -> 1
      [] q = "fit-score"  -> 3
      [] q = "materials"  -> 2
      [] q = "compliance" -> 3

\* new Worker(name, handler, { concurrency })
Concurrency(q) ==
    CASE q = "scout"      -> 1
      [] q = "normalize"  -> 5
      [] q = "fit-score"  -> 3
      [] q = "materials"  -> 2
      [] q = "compliance" -> 3

\* The first NumTargets entries of GREENHOUSE_TARGETS
GREENHOUSE_TARGETS == [t \in 1..NumTargets |-> [company |-> t, slug |-> t]]

-----------------------------------------------------------------------------
(* The external posting source *)

InternTitle == "Software Engineering Intern"
SeniorTitle == "Senior Staff Engineer"
NewGradTitle == "New Grad Engineer"

\* /intern|new[\s-]?grad|entry[\s-]?level|summer 202/i.test(title), on the
\* titles the boards of the model carry
EarlyCareerTitles == {InternTitle, NewGradTitle}
IsRelevant(j) == j.title \in EarlyCareerTitles

GreenhouseJob(id, title) == [id |-> id, title |-> title, location |-> Some("NYC")]

\* What the board of target t may list: nothing, an internship (id t), a
\* senior posting (id 100 + t) before it, or a new-grad posting (id 10 + t)
\* after it.
BoardListings(t) ==
    { <<>>,
      << GreenhouseJob(t, InternTitle) >>,
      << GreenhouseJob(100 + t, SeniorTitle), GreenhouseJob(t, InternTitle) >>,
      << GreenhouseJob(t, InternTitle), GreenhouseJob(10 + t, NewGradTitle) >> }

\* What fetchGreenhouseJobs(slug) can resolve to: [] for a non-ok response,
\* else the board's jobs.
FetchResults(t) == { <<>>, boards[t] }

\* jobs.filter(...)
RECURSIVE Filter(_)
Filter(jobs) ==
    IF jobs = <<>> THEN <<>>
    ELSE IF IsRelevant(Head(jobs)) THEN <<Head(jobs)>> \o Filter(Tail(jobs))
         ELSE Filter(Tail(jobs))

-----------------------------------------------------------------------------
(* The reasoning service: what a call can resolve to.  kind "error" is a   *)
(* rejected call, "malformed" is text JSON.parse throws on, "json" is a    *)
(* parsed object whose fields may be missing.                              *)

CallError == [kind |-> "error"]
Malformed == [kind |-> "malformed"]
Throws(r) == r.kind # "json"

ExtractResponses ==
    { [kind |-> "json", level |-> Some(""), remoteMode |-> Missing,
       visaSponsorship |-> Some("no")] }

NormalizeResponses ==
    { [kind |-> "json", normalizedTitle |-> Some("SWE Intern"),
       level |-> Some("intern"), remoteMode |-> Missing,
       visaSponsorship |-> Some("yes"), normalizedLocation |-> Missing],
      [kind |-> "json", normalizedTitle |-> Missing, level |-> Missing,
       remoteMode |-> Missing, visaSponsorship |-> Missing,
       normalizedLocation |-> Missing] }

RawScores == {Num(-5), Num(59), Num(60), Num(150), Half(72)}

FitResponses ==
    { [kind |-> "json", fitScore |-> Missing, reasoning |-> Missing,
       risks |-> Missing] }
    \cup { [kind |-> "json", fitScore |-> Some(s), reasoning |-> Some(<<>>),
            risks |-> Missing] : s \in RawScores }

MaterialsResponses ==
    { [kind |-> "json", coverLetter |-> Some("letter"),
       tailoredBullets |-> Some(<<"b1">>), whyCompany |-> Missing,
       qaAnswers |-> Missing] }

ComplianceResponses ==
    { [kind |-> "json", pass |-> Some(TRUE), flags |-> f] :
        f \in {Missing, Some(<<>>), Some(<<"flag">>)} }
    \cup { [kind |-> "json", pass |-> Some(FALSE), flags |-> f] :
        f \in {Some(<<>>), Some(<<"flag">>)} }
    \cup { [kind |-> "json", pass |-> Missing, flags |-> Some(<<>>)] }

-----------------------------------------------------------------------------
(* Tasks and executions *)

NoId == 0

\* a posting id that resolves to no row
MissingId == -1

Task(jobId, resumeVersionId, coverLetter, tailoredBullets) ==
    [jobId |-> jobId, resumeVersionId |-> resumeVersionId,
     coverLetter |-> coverLetter, tailoredBullets |-> tailoredBullets]

\* payload {} of a scout task, { jobId } of the next three stages
ScoutTask == Task(NoId, NoId, Missing, Missing)
JobTask(jobId) == Task(jobId, NoId, Missing, Missing)

NoMaterials == [coverLetter |-> Missing, tailoredBullets |-> Missing,
                whyCompany |-> Missing, qaAnswers |-> Missing]

NoResult == [pass |-> Missing, flags |-> Missing]

\* The locals of a handler that live across an await
NewExecution(q, task) ==
    [task |-> task,
     pc |-> CASE q = "scout" -> "fetch"
              [] q = "compliance" -> "check"
              [] OTHER -> "select",
     target |-> 1, relevant |-> <<>>, rowId |-> NoId,
     title |-> "", fitScore |-> Num(0), newStatus |-> "", materials |-> NoMaterials,
     resumeVersionId |-> NoId, result |-> NoResult, passed |-> FALSE, today |-> 0]

Put(q, task) == [waiting EXCEPT ![q] = @ (+) SetToBag({task})]
Replace(q, e, e2) == [running EXCEPT ![q] = (@ (-) SetToBag({e})) (+) SetToBag({e2})]
Remove(q, e) == [running EXCEPT ![q] = @ (-) SetToBag({e})]

\* The handler's promise resolved: the task is acknowledged and leaves the queue
Finish(q, e) == Remove(q, e)

\* The execution moves on to e2, or has returned
Goto(q, e, e2) == IF e2.pc = "done" THEN Finish(q, e) ELSE Replace(q, e, e2)

Executions(q) == BagToSet(running[q])
At(q, pc) == {e \in Executions(q) : e.pc = pc}

-----------------------------------------------------------------------------
(* The store *)

Ids(table) == DOMAIN table

\* ON CONFLICT (source, source_job_id): the unique index the clause names
PostingConflict(table, sourceJobId) ==
    \E i \in Ids(table) : table[i].source_job_id = sourceJobId

\* the INSERT without its ON CONFLICT clause
InsertPostingNoConflictClause(table, row) == Append(table, row)

\* INSERT INTO job_postings ... ON CONFLICT (source, source_job_id) DO NOTHING
InsertPosting(table, row) ==
    IF PostingConflict(table, row.source_job_id) THEN table
    ELSE Append(table, row)

\* ... RETURNING id : rows[0]?.id, NoId when the conflict fired
ReturningId(table, row) ==
    IF PostingConflict(table, row.source_job_id) THEN NoId
    ELSE Len(table) + 1

\* the column default of job_postings.status
DefaultStatus == "Discovered"

\* every assignment of listings to the boards of the targets, and the
\* number of postings on them that pass the pre-filter
Boards == {b \in [1..NumTargets -> UNION {BoardListings(t) : t \in 1..NumTargets}] :
              \A t \in 1..NumTargets : b[t] \in BoardListings(t)}
EarlyCareerOn(b) ==
    Cardinality({<<t, k>> \in (1..NumTargets) \X (1..2) :
                    k <= Len(b[t]) /\ IsRelevant(b[t][k])})

\* the service after bootstrap: empty tables, idle workers; empty queues
Idle ==
    /\ job_postings = <<>>
    /\ followups = <<>>
    /\ resume_versions = <<>>
    /\ applications = <<>>
    /\ running = [q \in Queues |-> EmptyBag]
    /\ redeliveries = 0
    /\ fired = 0
    /\ discovered = EmptyBag
    /\ normalizeEnqueued = EmptyBag
    /\ delivered = {}
    /\ rejected = {}
    /\ failed = {}

Bootstrapped == Idle /\ waiting = [q \in Queues |-> EmptyBag]

Init ==
    /\ Bootstrapped
    /\ boards \in {b \in Boards : EarlyCareerOn(b) <= MaxPostings}

-----------------------------------------------------------------------------
(* Scheduler and broker *)

\* cron.schedule("0 */6 * * *", () => scoutQueue.add("run-scout", {}))
Fire ==
    /\ fired < MaxFires
    /\ fired' = fired + 1
    /\ waiting' = Put("scout", ScoutTask)
    /\ UNCHANGED <<store, running, redeliveries, discovered, boards, rejected, normalizeEnqueued, delivered, failed>>

\* A worker with a free slot takes a waiting task
Deliver(q) ==
    \E task \in BagToSet(waiting[q]) :
        /\ BagCardinality(running[q]) < Concurrency(q)
        /\ waiting' = [waiting EXCEPT ![q] = @ (-) SetToBag({task})]
        /\ running' = [running EXCEPT ![q] = @ (+) SetToBag({NewExecution(q, task)})]
        /\ delivered' = delivered \cup {<<q, task.jobId>>}
        /\ UNCHANGED <<store, redeliveries, fired, discovered, boards, rejected, normalizeEnqueued, failed>>

\* the rejection caught and logged inside the handler, which goes on to
\* its enqueue
ThrowCaught(q, e, r) ==
    /\ running' = Replace(q, e, [e EXCEPT !.pc = "enqueue"])
    /\ failed' = failed \cup {r.kind}
    /\ UNCHANGED <<waiting, redeliveries>>

\* The handler's promise rejected: the broker retries the task or gives it up
Throw(q, e, r) ==
    /\ running' = Remove(q, e)
    /\ failed' = failed \cup {r.kind}
    /\ \/ /\ redeliveries < MaxRedeliveries
          /\ redeliveries' = redeliveries + 1
          /\ waiting' = Put(q, e.task)
       \/ UNCHANGED <<waiting, redeliveries>>

\* At-least-once delivery: a task that was handed out and not acknowledged
\* is handed out again, because its worker crashed (the execution is gone)
\* or because its lock ran out while the execution goes on.
Redeliver(q) ==
    \E e \in Executions(q) :
        /\ redeliveries < MaxRedeliveries
        /\ redeliveries' = redeliveries + 1
        /\ waiting' = Put(q, e.task)
        /\ \/ running' = Remove(q, e)
           \/ UNCHANGED running
        /\ UNCHANGED <<store, fired, discovered, boards, rejected, normalizeEnqueued, delivered, failed>>

-----------------------------------------------------------------------------
(* Scout *)

\* the loops left at the end of a target's postings (break, not continue)
ScoutAdvanceBreak(e) ==
    IF Len(e.relevant) > 1
    THEN [e EXCEPT !.relevant = Tail(@), !.pc = "process", !.rowId = NoId]
    ELSE [e EXCEPT !.relevant = <<>>, !.pc = "done", !.rowId = NoId]

\* the catch around the inner loop rather than inside it: the rest of the
\* target's postings is dropped
ScoutAdvanceNextTarget(e) ==
    IF e.target < NumTargets
    THEN [e EXCEPT !.target = @ + 1, !.relevant = <<>>, !.pc = "fetch", !.rowId = NoId]
    ELSE [e EXCEPT !.relevant = <<>>, !.pc = "done", !.rowId = NoId]

\* end of the inner loop body: next relevant posting, else next target
ScoutAdvance(e) ==
    IF Len(e.relevant) > 1
    THEN [e EXCEPT !.relevant = Tail(@), !.pc = "process", !.rowId = NoId]
    ELSE IF e.target < NumTargets
         THEN [e EXCEPT !.relevant = <<>>, !.target = @ + 1, !.pc = "fetch", !.rowId = NoId]
         ELSE [e EXCEPT !.relevant = <<>>, !.pc = "done", !.rowId = NoId]

\* extractStructuredFields: the defaults applied to the parsed response
ExtractedFields(r) ==
    [level |-> OrDefault(r.level, "unknown"),
     remoteMode |-> OrDefault(r.remoteMode, "unknown"),
     visaSponsorship |-> OrDefault(r.visaSponsorship, "unknown")]

\* the row the INSERT of runScout builds
NewPosting(target, gh, fields) ==
    [source_job_id |-> gh.id, company |-> target.company, title |-> gh.title,
     level |-> fields.level, location |-> gh.location,
     remote_mode |-> fields.remoteMode,
     visa_sponsorship |-> fields.visaSponsorship,
     status |-> DefaultStatus, fit_score |-> Missing, fit_reasoning |-> Missing,
     risks |-> Missing, notes |-> Missing]

\* jobs = await fetchGreenhouseJobs(slug), the pre-filter
ScoutFetch ==
    \E e \in At("scout", "fetch") :
        /\ \/ \* the fetch throws: skip this target
              /\ running' = Goto("scout", e, ScoutAdvance([e EXCEPT !.relevant = <<>>]))
              /\ failed' = failed \cup {"fetch"}
           \/ \E jobs \in FetchResults(e.target) :
                LET relevant == Filter(jobs) IN
                /\ running' = Goto("scout", e,
                      IF relevant = <<>> THEN ScoutAdvance([e EXCEPT !.relevant = <<>>])
                      ELSE [e EXCEPT !.relevant = relevant, !.pc = "process"])
                /\ failed' = IF jobs = boards[e.target] THEN failed
                             ELSE failed \cup {"fetch"}   \* a non-ok response
        /\ UNCHANGED <<store, waiting, redeliveries, fired, discovered, boards, rejected, normalizeEnqueued, delivered>>

\* extractStructuredFields and the INSERT for the head of `relevant`
ScoutProcess ==
    \E e \in At("scout", "process") :
        LET gh == Head(e.relevant) IN
        /\ \/ \* extraction or the insert throws: caught, logged, next posting
              /\ running' = Goto("scout", e, ScoutAdvance(e))
              /\ failed' = failed \cup {"posting"}
              /\ UNCHANGED <<job_postings, discovered, boards, rejected>>
           \/ \E r \in ExtractResponses :
                LET row == NewPosting(GREENHOUSE_TARGETS[e.target], gh, ExtractedFields(r))
                    id == ReturningId(job_postings, row)
                IN /\ job_postings' = InsertPosting(job_postings, row)
                   /\ discovered' = discovered (+) SetToBag({gh.id})
                   /\ UNCHANGED failed
                   /\ running' = Goto("scout", e,
                        IF id # NoId THEN [e EXCEPT !.rowId = id, !.pc = "enqueue"]
                        ELSE ScoutAdvance(e))
        /\ UNCHANGED <<followups, resume_versions, applications, waiting,
                       redeliveries, fired, normalizeEnqueued, delivered, boards, rejected>>

\* await normalizeQueue.add("normalize", { jobId: rows[0].id })
ScoutEnqueue ==
    \E e \in At("scout", "enqueue") :
        /\ running' = Goto("scout", e, ScoutAdvance(e))
        /\ \/ /\ waiting' = Put("normalize", JobTask(e.rowId))
              /\ normalizeEnqueued' = normalizeEnqueued (+) SetToBag({e.rowId})
              /\ UNCHANGED failed
           \/ \* the add throws: caught, logged
              /\ failed' = failed \cup {"enqueue"}
              /\ UNCHANGED <<waiting, normalizeEnqueued>>
        /\ UNCHANGED <<store, redeliveries, fired, discovered, boards, rejected, delivered>>

-----------------------------------------------------------------------------
(* Normalize *)

\* the UPDATE of runNormalize applied to one row
Normalized(row, r) ==
    [row EXCEPT !.title = COALESCE(r.normalizedTitle, @),
                !.level = COALESCE(r.level, @),
                !.remote_mode = COALESCE(r.remoteMode, @),
                !.visa_sponsorship = COALESCE(r.visaSponsorship, @),
                !.location = COALESCEnullable(r.normalizedLocation, @)]

NormalizeWrite(table, id, r) ==
    IF id \in Ids(table) THEN [table EXCEPT ![id] = Normalized(@, r)] ELSE table

\* SELECT ... WHERE id = $1 (if (!rows[0]) return), the reasoning call,
\* JSON.parse and the UPDATE
NormalizeUpdate ==
    \E e \in At("normalize", "select") :
        \E r \in {CallError, Malformed} \cup NormalizeResponses :
            IF e.task.jobId \notin Ids(job_postings)
            THEN /\ running' = Finish("normalize", e)
                 /\ UNCHANGED <<store, waiting, redeliveries, fired, discovered, boards, rejected, normalizeEnqueued, delivered, failed>>
            ELSE IF Throws(r)
            THEN /\ Throw("normalize", e, r)
                 /\ UNCHANGED <<store, fired, discovered, boards, rejected, normalizeEnqueued, delivered>>
            ELSE /\ job_postings' = NormalizeWrite(job_postings, e.task.jobId, r)
                 /\ running' = Goto("normalize", e, [e EXCEPT !.pc = "enqueue"])
                 /\ UNCHANGED <<followups, resume_versions, applications, waiting, redeliveries, fired, discovered, boards, rejected, normalizeEnqueued, delivered, failed>>

\* the add onto the handler's own queue
NormalizeEnqueueSelf ==
    \E e \in At("normalize", "enqueue") :
        /\ waiting' = Put("normalize", JobTask(e.task.jobId))
        /\ running' = Goto("normalize", e, [e EXCEPT !.pc = "done"])
        /\ UNCHANGED <<store, redeliveries, fired, discovered, boards, rejected, normalizeEnqueued, delivered, failed>>

\* await fitScoreQueue.add("fit-score", { jobId })
NormalizeEnqueue ==
    \E e \in At("normalize", "enqueue") :
        /\ waiting' = Put("fit-score", JobTask(e.task.jobId))
        /\ running' = Goto("normalize", e, [e EXCEPT !.pc = "done"])
        /\ UNCHANGED <<store, redeliveries, fired, discovered, boards, rejected, normalizeEnqueued, delivered, failed>>

-----------------------------------------------------------------------------
(* FitScore *)

\* Math.max(0, Math.min(100, result.fitScore ?? 0))
Clamp(fitScore) == Max(Num(0), Min(Num(100), OrElse(fitScore, Num(0))))

\* the comparison with > in place of >=
StatusForAboveThreshold(fitScore) ==
    IF ~Geq(Num(FIT_THRESHOLD), fitScore) THEN "Shortlisted" ELSE "Archived"

\* fitScore >= FIT_THRESHOLD ? "Shortlisted" : "Archived"
StatusFor(fitScore) ==
    IF Geq(fitScore, Num(FIT_THRESHOLD)) THEN "Shortlisted" ELSE "Archived"

\* the UPDATE of runFitScore applied to one row
Scored(row, r) ==
    [row EXCEPT !.fit_score = Some(Clamp(r.fitScore)),
                !.fit_reasoning = Some(Stringify(OrElse(r.reasoning, <<>>))),
                !.risks = Some(Stringify(OrElse(r.risks, <<>>))),
                !.status = StatusFor(Clamp(r.fitScore))]

FitScoreWrite(table, id, r) ==
    IF id \in Ids(table) THEN [table EXCEPT ![id] = Scored(@, r)] ELSE table

\* SELECT ... WHERE id = $1 (if (!rows[0]) return), the reasoning call,
\* JSON.parse, the clamp and the UPDATE
FitScoreUpdate ==
    \E e \in At("fit-score", "select") :
        \E r \in {CallError, Malformed} \cup FitResponses :
            IF e.task.jobId \notin Ids(job_postings)
            THEN /\ running' = Finish("fit-score", e)
                 /\ UNCHANGED <<store, waiting, redeliveries, fired, discovered, boards, rejected, normalizeEnqueued, delivered, failed>>
            ELSE IF Throws(r)
            THEN /\ Throw("fit-score", e, r)
                 /\ UNCHANGED <<store, fired, discovered, boards, rejected, normalizeEnqueued, delivered>>
            ELSE \/ /\ job_postings' = FitScoreWrite(job_postings, e.task.jobId, r)
                    /\ running' = Goto("fit-score", e,
                          [e EXCEPT !.fitScore = Clamp(r.fitScore),
                                    !.newStatus = StatusFor(Clamp(r.fitScore)),
                                    !.pc = "enqueue"])
                    /\ UNCHANGED <<followups, resume_versions, applications, waiting, redeliveries, fired, discovered, boards, rejected, normalizeEnqueued, delivered, failed>>
                 \/ \* fit_score may be an integer column (the table definition
                    \* is not part of the worker): the UPDATE then rejects a
                    \* score that is no integer
                    /\ ~IsInteger(Clamp(r.fitScore))
                    /\ Throw("fit-score", e, [kind |-> "update"])
                    /\ UNCHANGED <<store, fired, discovered, boards, rejected, normalizeEnqueued, delivered>>

\* materialsQueue.add outside the if on the new status
FitScoreEnqueueAlways ==
    \E e \in At("fit-score", "enqueue") :
        /\ waiting' = Put("materials", JobTask(e.task.jobId))
        /\ running' = Goto("fit-score", e, [e EXCEPT !.pc = "done"])
        /\ UNCHANGED <<store, redeliveries, fired, discovered, boards, rejected, normalizeEnqueued, delivered, failed>>

\* if (newStatus === "Shortlisted") await materialsQueue.add("materials", { jobId })
FitScoreEnqueue ==
    \E e \in At("fit-score", "enqueue") :
        /\ waiting' = IF e.newStatus = "Shortlisted"
                      THEN Put("materials", JobTask(e.task.jobId)) ELSE waiting
        /\ running' = Goto("fit-score", e, [e EXCEPT !.pc = "done"])
        /\ UNCHANGED <<store, redeliveries, fired, discovered, boards, rejected, normalizeEnqueued, delivered, failed>>

-----------------------------------------------------------------------------
(* Materials *)

SetStatus(table, id, status) ==
    IF id \in Ids(table) THEN [table EXCEPT ![id].status = status] ELSE table

\* SELECT ... WHERE id = $1 (if (!rows[0]) return; posting = rows[0]), then
\* UPDATE job_postings SET status = 'Drafting' WHERE id = $1
\* the same steps without the check of rows[0]
MaterialsDraftingUnchecked ==
    \E e \in At("materials", "select") :
        /\ job_postings' = SetStatus(job_postings, e.task.jobId, "Drafting")
        /\ running' = Goto("materials", e, [e EXCEPT !.pc = "resume"])
        /\ UNCHANGED <<followups, resume_versions, applications, waiting,
                       redeliveries, fired, discovered, boards, rejected, normalizeEnqueued, delivered, failed>>

MaterialsDrafting ==
    \E e \in At("materials", "select") :
        /\ job_postings' = SetStatus(job_postings, e.task.jobId, "Drafting")
        /\ running' = IF e.task.jobId \notin Ids(job_postings)
                      THEN Finish("materials", e)
                      ELSE Goto("materials", e,
                              [e EXCEPT !.title = job_postings[e.task.jobId].title,
                                        !.pc = "resume"])
        /\ UNCHANGED <<followups, resume_versions, applications, waiting,
                       redeliveries, fired, discovered, boards, rejected, normalizeEnqueued, delivered, failed>>

\* INSERT INTO resume_versions (...) VALUES (...) RETURNING id
\* (created_for records the posting of the inserting execution; it is not a
\*  column of the table)
InsertResumeVersion(table, jobId, title, r) ==
    Append(table, [target_role |-> title,
                   tailored_bullets |-> Stringify(OrElse(r.tailoredBullets, <<>>)),
                   created_for |-> jobId])

\* materials = JSON.parse(...) as GeneratedMaterials
GeneratedMaterials(r) ==
    [coverLetter |-> r.coverLetter, tailoredBullets |-> r.tailoredBullets,
     whyCompany |-> r.whyCompany, qaAnswers |-> r.qaAnswers]

\* the reasoning call, JSON.parse and the INSERT into resume_versions
MaterialsResume ==
    \E e \in At("materials", "resume") :
        \E r \in {CallError, Malformed} \cup MaterialsResponses :
            IF Throws(r)
            THEN /\ Throw("materials", e, r)
                 /\ UNCHANGED <<store, fired, discovered, boards, rejected, normalizeEnqueued, delivered>>
            ELSE /\ resume_versions' =
                       InsertResumeVersion(resume_versions, e.task.jobId, e.title, r)
                 /\ running' = Goto("materials", e,
                       [e EXCEPT !.materials = GeneratedMaterials(r),
                                 !.resumeVersionId = Len(resume_versions) + 1,
                                 !.pc = "application"])
                 /\ UNCHANGED <<job_postings, followups, applications, waiting, redeliveries, fired, discovered, boards, rejected, normalizeEnqueued, delivered, failed>>

\* the unique constraint of applications: one row per job_id
ApplicationConflict(table, jobId) ==
    \E i \in Ids(table) : table[i].job_id = jobId

\* the INSERT without its ON CONFLICT clause
InsertApplicationNoConflictClause(table, row) == Append(table, row)

\* INSERT INTO applications (...) VALUES (...) ON CONFLICT DO NOTHING
InsertApplication(table, row) ==
    IF ApplicationConflict(table, row.job_id) THEN table ELSE Append(table, row)

\* the row the INSERT into applications builds
ApplicationRow(jobId, resumeVersionId, materials) ==
    [job_id |-> jobId,
     resume_version_id |-> resumeVersionId,
     cover_letter_id |-> IF Truthy(materials.coverLetter)
                         THEN Some(<<"cl", jobId>>) ELSE Missing,
     qa_answers_id |-> IF Truthy(materials.qaAnswers)
                       THEN Some(<<"qa", jobId>>) ELSE Missing]

MaterialsApplication ==
    \E e \in At("materials", "application") :
        /\ applications' = InsertApplication(applications,
              ApplicationRow(e.task.jobId, e.resumeVersionId, e.materials))
        /\ running' = Goto("materials", e, [e EXCEPT !.pc = "notes"])
        /\ UNCHANGED <<job_postings, followups, resume_versions, waiting,
                       redeliveries, fired, discovered, boards, rejected, normalizeEnqueued, delivered, failed>>

\* UPDATE job_postings SET notes = $2 WHERE id = $1
SetNotes(table, id, m) ==
    IF id \in Ids(table)
    THEN [table EXCEPT ![id].notes =
            Some(Stringify([coverLetter |-> m.coverLetter,
                            whyCompany |-> m.whyCompany,
                            qaAnswers |-> m.qaAnswers]))]
    ELSE table

MaterialsNotes ==
    \E e \in At("materials", "notes") :
        /\ job_postings' = SetNotes(job_postings, e.task.jobId, e.materials)
        /\ running' = Goto("materials", e, [e EXCEPT !.pc = "enqueue"])
        /\ UNCHANGED <<followups, resume_versions, applications, waiting,
                       redeliveries, fired, discovered, boards, rejected, normalizeEnqueued, delivered, failed>>

\* await complianceQueue.add("compliance", { jobId, resumeVersionId, ... })
MaterialsEnqueue ==
    \E e \in At("materials", "enqueue") :
        /\ waiting' = Put("compliance",
              Task(e.task.jobId, e.resumeVersionId, e.materials.coverLetter,
                   e.materials.tailoredBullets))
        /\ running' = Goto("materials", e, [e EXCEPT !.pc = "done"])
        /\ UNCHANGED <<store, redeliveries, fired, discovered, boards, rejected, normalizeEnqueued, delivered, failed>>

-----------------------------------------------------------------------------
(* Compliance *)

\* the pass determination from result.pass alone
PassedWhateverFlags(r) == r.pass = Some(TRUE)

\* result.pass === true && (result.flags ?? []).length === 0
Passed(r) == r.pass = Some(TRUE) /\ Len(OrElse(r.flags, <<>>)) = 0

\* passed ? "ReadyForReview" : "Drafting"
ComplianceStatus(passed) == IF passed THEN "ReadyForReview" ELSE "Drafting"

\* the reasoning call, JSON.parse and the pass determination
ComplianceCheck ==
    \E e \in At("compliance", "check") :
        \E r \in {CallError, Malformed} \cup ComplianceResponses :
            IF Throws(r)
            THEN /\ Throw("compliance", e, r)
                 /\ UNCHANGED <<store, fired, discovered, boards, rejected, normalizeEnqueued, delivered>>
            ELSE /\ running' = Goto("compliance", e,
                       [e EXCEPT !.result = [pass |-> r.pass, flags |-> r.flags],
                                 !.passed = Passed(r),
                                 !.pc = "update"])
                 /\ UNCHANGED <<store, waiting, redeliveries, fired, discovered, boards, rejected,
                                normalizeEnqueued, delivered, failed>>

\* UPDATE job_postings SET status = $2 WHERE id = $1; a failed check logs
\* the flags and returns (from here on `result` is only logged)
ComplianceUpdate ==
    \E e \in At("compliance", "update") :
        /\ job_postings' = SetStatus(job_postings, e.task.jobId, ComplianceStatus(e.passed))
        /\ running' = Goto("compliance", e,
              [e EXCEPT !.result = NoResult,
                        !.pc = IF e.passed THEN "today" ELSE "done"])
        /\ rejected' = IF ~e.passed /\ e.task.jobId \in Ids(job_postings)
                       THEN rejected \cup {e.task.jobId} ELSE rejected
        /\ UNCHANGED <<followups, resume_versions, applications, waiting,
                       redeliveries, fired, discovered, boards, normalizeEnqueued, delivered, failed>>

\* ON CONFLICT (job_id, followup_number): the unique index the clause names
FollowupConflict(table, jobId, followupNumber) ==
    \E i \in Ids(table) :
        table[i].job_id = jobId /\ table[i].followup_number = followupNumber

\* the INSERT with the conflict taken on the whole row, date included
InsertFollowupConflictOnDate(table, row) ==
    IF \E i \in Ids(table) : table[i] = row THEN table ELSE Append(table, row)

\* the INSERT with DO UPDATE in place of DO NOTHING: the row that is there
\* takes the new date
InsertFollowupDoUpdate(table, row) ==
    IF FollowupConflict(table, row.job_id, row.followup_number)
    THEN [i \in Ids(table) |->
             IF table[i].job_id = row.job_id
                /\ table[i].followup_number = row.followup_number
             THEN row ELSE table[i]]
    ELSE Append(table, row)

\* INSERT INTO followups ... ON CONFLICT (job_id, followup_number) DO NOTHING
InsertFollowup(table, row) ==
    IF FollowupConflict(table, row.job_id, row.followup_number) THEN table
    ELSE Append(table, row)

\* the pairs [followupNumber, daysOffset] of the loop
FollowupSchedule == << <<1, 7>>, <<2, 14>> >>

\* the offsets added up from one follow-up to the next
FollowupRowCumulative(jobId, k, today) ==
    [job_id |-> jobId, followup_number |-> FollowupSchedule[k][1],
     scheduled_for |-> today + (IF k = 1 THEN 0 ELSE FollowupSchedule[k - 1][2])
                            + FollowupSchedule[k][2],
     status |-> "pending"]

FollowupRow(jobId, k, today) ==
    [job_id |-> jobId, followup_number |-> FollowupSchedule[k][1],
     scheduled_for |-> today + FollowupSchedule[k][2], status |-> "pending"]

\* const today = new Date(), then the first INSERT of the loop.  job_id
\* may be declared as a reference to job_postings (the table definition is
\* not part of the worker): the INSERT for an id without a row is then
\* rejected.
ComplianceFollowup1 ==
    \E e \in At("compliance", "today"), today \in 0..MaxDay, references \in BOOLEAN :
        IF references /\ e.task.jobId \notin Ids(job_postings)
        THEN /\ Throw("compliance", e, [kind |-> "insert"])
             /\ UNCHANGED <<store, fired, discovered, boards, rejected, normalizeEnqueued, delivered>>
        ELSE /\ followups' = InsertFollowup(followups, FollowupRow(e.task.jobId, 1, today))
             /\ running' = Goto("compliance", e, [e EXCEPT !.today = today, !.pc = "second"])
             /\ UNCHANGED <<job_postings, resume_versions, applications, waiting,
                            redeliveries, fired, discovered, boards, rejected, normalizeEnqueued, delivered, failed>>

\* the second INSERT of the loop
ComplianceFollowup2 ==
    \E e \in At("compliance", "second") :
        /\ followups' = InsertFollowup(followups, FollowupRow(e.task.jobId, 2, e.today))
        /\ running' = Goto("compliance", e, [e EXCEPT !.pc = "done"])
        /\ UNCHANGED <<job_postings, resume_versions, applications, waiting,
                       redeliveries, fired, discovered, boards, rejected, normalizeEnqueued, delivered, failed>>

-----------------------------------------------------------------------------
(* A whole handler run on a store S without anything in between: the       *)
(* statements of the steps above, in the handler's order.                  *)

Store == [job_postings |-> job_postings, followups |-> followups,
          resume_versions |-> resume_versions, applications |-> applications]

runNormalize(S, id, r) ==
    [S EXCEPT !.job_postings = NormalizeWrite(@, id, r)]

runFitScore(S, id, r) ==
    [S EXCEPT !.job_postings = FitScoreWrite(@, id, r)]

runMaterials(S, id, r) ==
    [S EXCEPT !.job_postings =
                 SetNotes(SetStatus(@, id, "Drafting"), id, GeneratedMaterials(r)),
              !.resume_versions =
                 InsertResumeVersion(@, id, S.job_postings[id].title, r),
              !.applications =
                 InsertApplication(@,
                     ApplicationRow(id, Len(S.resume_versions) + 1,
                                    GeneratedMaterials(r)))]

runCompliance(S, id, r, today) ==
    [S EXCEPT !.job_postings = SetStatus(@, id, ComplianceStatus(Passed(r))),
              !.followups =
                 IF Passed(r)
                 THEN InsertFollowup(InsertFollowup(@, FollowupRow(id, 1, today)),
                                     FollowupRow(id, 2, today))
                 ELSE @]

-----------------------------------------------------------------------------

Next ==
    \/ Fire
    \/ \E q \in Queues : Deliver(q)
    \/ \E q \in Queues : Redeliver(q)
    \/ ScoutFetch
    \/ ScoutProcess
    \/ ScoutEnqueue
    \/ NormalizeUpdate
    \/ NormalizeEnqueue
    \/ FitScoreUpdate
    \/ FitScoreEnqueue
    \/ MaterialsDrafting
    \/ MaterialsResume
    \/ MaterialsApplication
    \/ MaterialsNotes
    \/ MaterialsEnqueue
    \/ ComplianceCheck
    \/ ComplianceUpdate
    \/ ComplianceFollowup1
    \/ ComplianceFollowup2

Spec == Init /\ [][Next]_vars

\* The broker hands out every waiting task and every worker runs its handler
\* on; crashes, lost locks and scheduler firings are under no obligation.
Fairness ==
    /\ \A q \in Queues : WF_vars(Deliver(q))
    /\ WF_vars(ScoutFetch) /\ WF_vars(ScoutProcess) /\ WF_vars(ScoutEnqueue)
    /\ WF_vars(NormalizeUpdate) /\ WF_vars(NormalizeEnqueue)
    /\ WF_vars(FitScoreUpdate) /\ WF_vars(FitScoreEnqueue)
    /\ WF_vars(MaterialsDrafting) /\ WF_vars(MaterialsResume)
    /\ WF_vars(MaterialsApplication) /\ WF_vars(MaterialsNotes)
    /\ WF_vars(MaterialsEnqueue)
    /\ WF_vars(ComplianceCheck) /\ WF_vars(ComplianceUpdate)
    /\ WF_vars(ComplianceFollowup1) /\ WF_vars(ComplianceFollowup2)

FairSpec == Spec /\ Fairness

\* the boards with one posting, on the first of them
OnePosting == {b \in Boards : Filter(b[1]) = b[1] /\ Len(b[1]) = 1 /\ b[2] = <<>>}

\* a task whose posting id resolves to no row
MissingRowTask(q) ==
    IF q = "compliance"
    THEN Task(MissingId, NoId, Some("letter"), Some(<<"b1">>))
    ELSE JobTask(MissingId)

\* The pipeline with one more task in a queue: a Normalize, FitScore or
\* Materials task whose posting id resolves to no row.
MissingRowInit ==
    /\ Idle
    /\ boards \in OnePosting
    /\ \E q \in {"normalize", "fit-score", "materials"} :
          waiting = [p \in Queues |->
                        IF p = q THEN SetToBag({MissingRowTask(q)}) ELSE EmptyBag]

MissingRowSpec == MissingRowInit /\ [][Next]_vars

\* The broker and the workers behind a backlog: one of the Normalize,
\* FitScore, Materials and Compliance queues holds one task more than its
\* worker takes at a time, for postings whose rows are gone, and the boards
\* list nothing.  BacklogNext is Next without the steps that need a row of
\* job_postings, which are never enabled here.
BacklogInit ==
    /\ Idle
    /\ boards = [t \in 1..NumTargets |-> <<>>]
    /\ \E q \in Queues \ {"scout"} :
          waiting = [p \in Queues |->
                        IF p = q
                        THEN [t \in {MissingRowTask(q)} |-> Concurrency(q) + 1]
                        ELSE EmptyBag]

BacklogNext ==
    \/ Fire
    \/ \E q \in Queues : Deliver(q)
    \/ \E q \in Queues : Redeliver(q)
    \/ ScoutFetch
    \/ NormalizeUpdate
    \/ FitScoreUpdate
    \/ MaterialsDrafting
    \/ ComplianceCheck
    \/ ComplianceUpdate
    \/ ComplianceFollowup1
    \/ ComplianceFollowup2

BacklogSpec == BacklogInit /\ [][BacklogNext]_vars

\* The Scout stage on its own, over every assignment of listings to the
\* boards: the scheduler, the scout queue and runScout.  The Normalize tasks
\* it enqueues stay in their queue.
ScoutInit ==
    /\ Bootstrapped
    /\ boards \in Boards

ScoutNext ==
    \/ Fire
    \/ Deliver("scout")
    \/ Redeliver("scout")
    \/ ScoutFetch
    \/ ScoutProcess
    \/ ScoutEnqueue

ScoutSpec == ScoutInit /\ [][ScoutNext]_vars

-----------------------------------------------------------------------------
(* Properties *)

PostingIds == Ids(job_postings)

\* the rows of a table that belong to posting id
PostingsOf(sourceJobId) == {i \in PostingIds : job_postings[i].source_job_id = sourceJobId}
ApplicationsOf(id) == {i \in Ids(applications) : applications[i].job_id = id}
ResumeVersionsOf(id) == {i \in Ids(resume_versions) : resume_versions[i].created_for = id}

\* the tasks of a bag that carry posting id, and how many they are
TasksFor(bag, id) == [t \in {u \in BagToSet(bag) : u.jobId = id} |-> bag[t]]
Count(bag, id) == BagCardinality(TasksFor(bag, id))
ExecutionsFor(q, id) == {e \in Executions(q) : e.task.jobId = id}

\* execution e of queue q takes a step of its handler (it is neither
\* redelivered nor retried in this step)
Steps(q, e) ==
    /\ e \in Executions(q)
    /\ CopiesIn(e, running'[q]) < CopiesIn(e, running[q])
    /\ redeliveries' = redeliveries

\* C1: however often Scout sees the same (source, sourceId), the store holds
\* one posting for the pair, at most one Normalize task is ever enqueued for
\* it, and Scout's insert leaves every existing row as it was.
C1_DedupOnDiscovery ==
    /\ [](\A sid \in BagToSet(discovered) : Cardinality(PostingsOf(sid)) = 1)
    /\ [](\A id \in BagToSet(normalizeEnqueued) : CopiesIn(id, normalizeEnqueued) <= 1)
    /\ [][ScoutProcess =>
            \A id \in PostingIds :
                id \in Ids(job_postings') /\ job_postings'[id] = job_postings[id]]_vars

\* a pair that Scout inserted twice over, with its one row and its one task
C1_Witness ==
    \E sid \in BagToSet(discovered) :
        /\ CopiesIn(sid, discovered) >= 2
        /\ Cardinality(PostingsOf(sid)) = 1
        /\ \A id \in PostingsOf(sid) : CopiesIn(id, normalizeEnqueued) = 1

\* the order of the statuses along the pipeline
Rank(status) ==
    CASE status = "Discovered" -> 0
      [] status = "Shortlisted" -> 1
      [] status = "Archived" -> 1
      [] status = "Drafting" -> 2
      [] status = "ReadyForReview" -> 3

\* C2: a posting's status never moves backward along Discovered ->
\* Shortlisted | Archived -> Drafting -> ReadyForReview, except when
\* Compliance writes Drafting after a failed check.
C2_StatusMonotonic ==
    [][\A id \in PostingIds :
          Rank(job_postings'[id].status) < Rank(job_postings[id].status)
          => ComplianceUpdate /\ job_postings'[id].status = "Drafting"]_vars

\* C3: once a posting is Archived its status stays Archived, no Materials or
\* Compliance task for it is enqueued or delivered and no such execution
\* takes a step.
C3_ArchivedTerminal ==
    [][\A id \in PostingIds :
          job_postings[id].status = "Archived"
          => /\ job_postings'[id].status = "Archived"
             /\ \A q \in {"materials", "compliance"} :
                   /\ Count(waiting'[q], id) <= Count(waiting[q], id)
                   /\ Count(running'[q], id) = Count(running[q], id)
                   /\ \A e \in ExecutionsFor(q, id) :
                         CopiesIn(e, running'[q]) = CopiesIn(e, running[q])]_vars

\* the numbers from 0 to 100, whole or not
ClampedScores == {Num(i) : i \in 0..100} \cup {Half(i) : i \in 0..99}

\* C4: a FitScore execution with clamped score s persists Shortlisted and
\* then enqueues exactly one Materials task when s >= 60; it persists
\* Archived and enqueues nothing when s < 60.
C4_ThresholdBranch ==
    [][\A e \in Executions("fit-score") :
          LET id == e.task.jobId IN
          /\ (e.pc = "select" /\ Steps("fit-score", e) /\ job_postings' # job_postings)
             => \E s \in ClampedScores :
                   /\ job_postings'[id].fit_score = Some(s)
                   /\ job_postings'[id].status =
                         (IF Geq(s, Num(60)) THEN "Shortlisted" ELSE "Archived")
                   /\ [e EXCEPT !.pc = "enqueue", !.fitScore = s,
                                !.newStatus = job_postings'[id].status]
                         \in BagToSet(running'["fit-score"])
                   /\ waiting' = waiting
          /\ (e.pc = "enqueue" /\ Steps("fit-score", e))
             => /\ \A q \in Queues \ {"materials"} : waiting'[q] = waiting[q]
                /\ BagCardinality(waiting'["materials"]) =
                      BagCardinality(waiting["materials"])
                      + (IF Geq(e.fitScore, Num(60)) THEN 1 ELSE 0)
                /\ Count(waiting'["materials"], id) =
                      Count(waiting["materials"], id)
                      + (IF Geq(e.fitScore, Num(60)) THEN 1 ELSE 0)]_vars

\* a posting scored exactly 60, Shortlisted, with its Materials task waiting
C4_Witness ==
    \E id \in PostingIds :
        /\ job_postings[id].fit_score = Some(Num(60))
        /\ job_postings[id].status = "Shortlisted"
        /\ Count(waiting["materials"], id) = 1
        /\ ExecutionsFor("fit-score", id) = {}

\* C5: Compliance writes ReadyForReview exactly when the response's pass is
\* true and its flag list is empty (or absent); every other response makes
\* it write Drafting.
C5_PassStrictness ==
    [][\A e \in At("compliance", "update") :
          Steps("compliance", e)
          => job_postings'[e.task.jobId].status =
                (IF e.result.pass = Some(TRUE) /\ e.result.flags \in {Missing, Some(<<>>)}
                 THEN "ReadyForReview" ELSE "Drafting")]_vars

\* a response with pass true and no flags has made the posting ReadyForReview
C5_Witness ==
    \E e \in At("compliance", "today") :
        /\ e.passed
        /\ job_postings[e.task.jobId].status = "ReadyForReview"

RowsOf(table, id) == {i \in Ids(table) : table[i].job_id = id}
NumbersOf(table, id) == {table[i].followup_number : i \in RowsOf(table, id)}

\* C6: a posting never has two FollowUp rows with the same number nor a
\* number other than 1 and 2, and when a passing Compliance execution ends
\* the posting has exactly the rows 1 and 2.
C6_FollowupDedup ==
    /\ [](\A id \in PostingIds :
            /\ NumbersOf(followups, id) \subseteq {1, 2}
            /\ Cardinality(RowsOf(followups, id)) <= 2
            /\ Cardinality(RowsOf(followups, id)) =
                  Cardinality(NumbersOf(followups, id)))
    /\ [][\A e \in At("compliance", "second") :
            Steps("compliance", e)
            => /\ NumbersOf(followups', e.task.jobId) = {1, 2}
               /\ Cardinality(RowsOf(followups', e.task.jobId)) = 2]_vars

\* a second passing execution, on another day, past its first insert: the
\* row it found was scheduled by an earlier execution
C6_Witness ==
    \E e \in At("compliance", "second") :
        \E i \in RowsOf(followups, e.task.jobId) :
            /\ followups[i].followup_number = 1
            /\ followups[i].scheduled_for # e.today + 7
            /\ Cardinality(RowsOf(followups, e.task.jobId)) = 2

\* C7: however often the Materials task of a posting is executed, the store
\* holds at most one ResumeVersion made for that posting.
C7_OneResumeVersion ==
    \A id \in PostingIds : Cardinality(ResumeVersionsOf(id)) <= 1

C9_NoWorkLost ==
    \A id \in 1..NumTargets :
        (id \in PostingIds) ~> (<<"normalize", id>> \in delivered \/ failed # {})

\* stores S and T hold the same posting records, FollowUp rows and
\* Application rows
SameRecords(S, T) ==
    /\ S.job_postings = T.job_postings
    /\ S.followups = T.followups
    /\ S.applications = T.applications

\* C10: running the Normalize, FitScore, Materials or Compliance handler a
\* second time for the same posting with the same response leaves every
\* posting record, FollowUp row and Application row as the first run left
\* it.
C10_Reexecutable ==
    \A id \in PostingIds :
        /\ \A r \in NormalizeResponses :
              LET once == runNormalize(Store, id, r)
              IN SameRecords(runNormalize(once, id, r), once)
        /\ \A r \in FitResponses :
              LET once == runFitScore(Store, id, r)
              IN SameRecords(runFitScore(once, id, r), once)
        /\ \A r \in MaterialsResponses :
              LET once == runMaterials(Store, id, r)
              IN SameRecords(runMaterials(once, id, r), once)
        /\ \A r \in ComplianceResponses, first \in 0..MaxDay :
              LET once == runCompliance(Store, id, r, first)
              IN \A second \in 0..MaxDay :
                    SameRecords(runCompliance(once, id, r, second), once)

\* the Materials handler has run twice for a posting, and so has a passing
\* Compliance handler
C10_Witness ==
    \E id \in PostingIds :
        /\ Cardinality(ResumeVersionsOf(id)) = 2
        /\ Cardinality(ApplicationsOf(id)) = 1
        /\ Cardinality(RowsOf(followups, id)) = 2
        /\ job_postings[id].status = "ReadyForReview"
        /\ \A q \in Queues : running[q] = EmptyBag /\ waiting[q] = EmptyBag

\* no external call has failed and the broker has redelivered nothing
NoFailure == failed = {} /\ redeliveries = 0

\* the Compliance task of posting id was handed out, its execution is over
\* and the posting was left in Drafting
TurnedDown(id) ==
    /\ <<"compliance", id>> \in delivered
    /\ ExecutionsFor("compliance", id) = {}
    /\ Count(waiting["compliance"], id) = 0
    /\ job_postings[id].status = "Drafting"

\* posting id has FollowUps 1 and 2, 7 and 14 days after one day d
ScheduledFrom(id, d) ==
    {<<followups[i].followup_number, followups[i].scheduled_for>> :
        i \in RowsOf(followups, id)} = {<<1, d + 7>>, <<2, d + 14>>}

\* posting id has its ResumeVersion and its Application, which refers to it
HasMaterials(id) ==
    /\ Cardinality(ResumeVersionsOf(id)) = 1
    /\ Cardinality(ApplicationsOf(id)) = 1
    /\ \A i \in ApplicationsOf(id) :
          applications[i].resume_version_id \in ResumeVersionsOf(id)

Arrived(id) ==
    /\ job_postings[id].status = "ReadyForReview"
    /\ HasMaterials(id)
    /\ Cardinality(RowsOf(followups, id)) = 2
    /\ \E d \in 0..MaxDay : ScheduledFrom(id, d)

\* the status changes of the scenario
ScenarioSteps ==
    {<<"Discovered", "Shortlisted">>, <<"Discovered", "Archived">>,
     <<"Shortlisted", "Drafting">>, <<"Drafting", "ReadyForReview">>}

\* C11: while no external call fails and nothing is redelivered, a posting
\* starts as Discovered, changes status only along Discovered -> Shortlisted
\* (or Archived) -> Drafting -> ReadyForReview, has its ResumeVersion and
\* Application by the time a Compliance task exists for it, and, unless it is
\* scored below the threshold or turned down by Compliance, eventually is
\* ReadyForReview with FollowUps 1 and 2 scheduled 7 and 14 days after the
\* day of the pass.
C11_EndToEnd ==
    /\ \A id \in 1..MaxPostings :
          (id \in PostingIds)
             ~> (id \in PostingIds
                 /\ \/ Arrived(id)
                    \/ ~NoFailure
                    \/ job_postings[id].status = "Archived"
                    \/ TurnedDown(id))
    /\ [][NoFailure' =>
            \A id \in Ids(job_postings') :
                IF id \notin PostingIds
                THEN job_postings'[id].status = "Discovered"
                ELSE \/ job_postings'[id].status = job_postings[id].status
                     \/ <<job_postings[id].status, job_postings'[id].status>>
                           \in ScenarioSteps]_vars
    /\ [](NoFailure =>
            \A id \in PostingIds :
                (Count(waiting["compliance"], id) > 0 \/ <<"compliance", id>> \in delivered)
                   => job_postings[id].status \in {"Drafting", "ReadyForReview"}
                      /\ HasMaterials(id))

\* a posting that arrived in a run without failure or redelivery
C11_Witness ==
    \E id \in PostingIds : NoFailure /\ Arrived(id)

\* C12: every fit score in the store is an integer from 0 to 100.
C12_ScoreClamping ==
    \A id \in PostingIds :
        job_postings[id].fit_score # Missing
           => LET s == job_postings[id].fit_score[1]
              IN IsInteger(s) /\ s[1] \in 0..100

\* every way a Normalize response can supply or leave out its five fields
\* (left out or null: Missing), and one that supplies empty strings
SuppliedOrNot ==
    { [kind |-> "json", normalizedTitle |-> t, level |-> l, remoteMode |-> m,
       visaSponsorship |-> v, normalizedLocation |-> c] :
         t \in {Missing, Some("Title")}, l \in {Missing, Some("newgrad")},
         m \in {Missing, Some("remote")}, v \in {Missing, Some("no")},
         c \in {Missing, Some("Remote - US")} }
    \cup { [kind |-> "json", normalizedTitle |-> Some(""), level |-> Some(""),
            remoteMode |-> Some(""), visaSponsorship |-> Some(""),
            normalizedLocation |-> Some("")] }

\* the value of a column after the update: the old one when the response
\* leaves the field out, else the supplied one
Coalesced(field, old) == IF field = Missing THEN old ELSE field[1]

\* C13: Normalize's update leaves title, level, remote mode, visa indicator
\* and location as they were when the response leaves the field out or gives
\* null, sets them to the supplied value otherwise, and changes no other
\* column and no other row.
C13_Coalesce ==
    \A id \in PostingIds : \A r \in SuppliedOrNot \cup NormalizeResponses :
        LET old == job_postings[id]
            after == NormalizeWrite(job_postings, id, r)
        IN /\ after[id].title = Coalesced(r.normalizedTitle, old.title)
           /\ after[id].level = Coalesced(r.level, old.level)
           /\ after[id].remote_mode = Coalesced(r.remoteMode, old.remote_mode)
           /\ after[id].visa_sponsorship = Coalesced(r.visaSponsorship, old.visa_sponsorship)
           /\ after[id].location =
                 (IF r.normalizedLocation = Missing THEN old.location
                  ELSE r.normalizedLocation)
           /\ after = [job_postings EXCEPT ![id] =
                          [old EXCEPT !.title = after[id].title,
                                      !.level = after[id].level,
                                      !.remote_mode = after[id].remote_mode,
                                      !.visa_sponsorship = after[id].visa_sponsorship,
                                      !.location = after[id].location]]

\* a Normalize execution has written a response that left out the remote
\* mode and the location: both are as Scout stored them, the title is new
C13_Witness ==
    \E e \in At("normalize", "enqueue") :
        LET row == job_postings[e.task.jobId]
        IN /\ row.title = "SWE Intern"
           /\ row.remote_mode = "unknown"
           /\ row.location = Some("NYC")

\* C14: no Normalize, FitScore, Materials or Compliance task ever fails on
\* a response that is there but malformed.
C14_DefensiveParsing == "malformed" \notin failed

\* C15: the step a Normalize, FitScore or Materials execution takes for a
\* posting id that resolves to no row is its return: the task is
\* acknowledged, nothing has failed or is retried, the store is as it was
\* and no task is enqueued.
C15_MissingRecord ==
    [][\A q \in {"normalize", "fit-score", "materials"} :
          \A e \in Executions(q) :
             (e.task.jobId \notin PostingIds /\ Steps(q, e))
                => /\ running' = Finish(q, e)
                   /\ store' = store
                   /\ waiting' = waiting
                   /\ failed' = failed]_vars

\* the task for the missing row was handed out and is gone from its queue,
\* with nothing redelivered and nothing failed
C15_Witness ==
    /\ <<"materials", MissingId>> \in delivered
    /\ ExecutionsFor("materials", MissingId) = {}
    /\ Count(waiting["materials"], MissingId) = 0
    /\ redeliveries = 0 /\ failed = {}
    /\ MissingId \notin PostingIds

\* the Scout executions after the step
ScoutAfter == BagToSet(running'["scout"])

\* C16: a Scout execution goes through the targets one by one and ends only
\* after the last one; a fetch that fails (it throws, or the response is not
\* ok) takes it to the next target with nothing written and nothing
\* enqueued; no step of the execution fails the Scout task or puts it back
\* in its queue.
C16_SourceIsolation ==
    [][\A e \in Executions("scout") :
          Steps("scout", e)
             => /\ waiting'["scout"] = waiting["scout"]
                /\ failed' \subseteq failed \cup {"fetch", "posting", "enqueue"}
                /\ IF ScoutAfter = {}
                   THEN e.target = NumTargets
                   ELSE \A e2 \in ScoutAfter :
                           \/ e2.target = e.target /\ e2.pc # "fetch"
                           \/ e2.target = e.target + 1 /\ e2.pc = "fetch"
                /\ (e.pc = "fetch" /\ "fetch" \in failed' \ failed)
                      => /\ store' = store /\ waiting' = waiting
                         /\ \A e2 \in ScoutAfter :
                               e2.target = e.target + 1 /\ e2.pc = "fetch"]_vars

\* the fetch of the first board failed in the one Scout execution of the
\* run, and the posting of the second board is in the store with its
\* Normalize task
C16_Witness ==
    /\ fired = 1 /\ redeliveries = 0 /\ failed = {"fetch"}
    /\ Filter(boards[1]) # <<>>
    /\ Executions("scout") = {} /\ waiting["scout"] = EmptyBag
    /\ \A id \in PostingIds : job_postings[id].source_job_id \in {2, 10 + 2}
    /\ \E id \in PostingIds :
          job_postings[id].source_job_id = 2 /\ Count(waiting["normalize"], id) = 1

\* C17: when the extraction, the insert or the enqueue of one posting
\* fails, the Scout execution goes on with the next pre-filtered posting of
\* the same target, or with the next target's fetch after the last one, or
\* ends after the last posting of the last target; the Scout task is not
\* failed or put back in its queue.
C17_PostingContainment ==
    [][\A e \in Executions("scout") :
          (Steps("scout", e) /\ e.pc \in {"process", "enqueue"} /\ failed' # failed)
             => /\ waiting'["scout"] = waiting["scout"]
                /\ failed' \ failed \subseteq {"posting", "enqueue"}
                /\ IF Len(e.relevant) > 1
                   THEN \E e2 \in ScoutAfter :
                           /\ e2.target = e.target /\ e2.pc = "process"
                           /\ e2.relevant = Tail(e.relevant)
                   ELSE IF e.target < NumTargets
                   THEN \E e2 \in ScoutAfter :
                           e2.target = e.target + 1 /\ e2.pc = "fetch"
                   ELSE ScoutAfter = {}]_vars

\* the first posting of board 1 failed in the one Scout execution of the
\* run; its sibling and the posting of board 2 are in the store
C17_Witness ==
    /\ fired = 1 /\ redeliveries = 0 /\ failed = {"posting"}
    /\ Len(Filter(boards[1])) = 2
    /\ Executions("scout") = {} /\ waiting["scout"] = EmptyBag
    /\ {job_postings[id].source_job_id : id \in PostingIds} = {10 + 1, 2}

\* C18: at most 1 Scout, 5 Normalize, 3 FitScore, 2 Materials and 3
\* Compliance executions are in flight at any time.
C18_ConcurrencyCaps ==
    /\ BagCardinality(running["scout"]) <= 1
    /\ BagCardinality(running["normalize"]) <= 5
    /\ BagCardinality(running["fit-score"]) <= 3
    /\ BagCardinality(running["materials"]) <= 2
    /\ BagCardinality(running["compliance"]) <= 3

\* a Scout task waits while the one Scout execution runs, and another
\* worker has as many executions in flight as it takes, with a task waiting
C18_Witness ==
    /\ BagCardinality(running["scout"]) = 1 /\ waiting["scout"] # EmptyBag
    /\ \E q \in Queues \ {"scout"} :
          /\ BagCardinality(running[q]) = Concurrency(q)
          /\ waiting[q] # EmptyBag

\* a Compliance execution whose check did not pass writes Drafting, inserts
\* no FollowUp row, enqueues nothing and returns
FailedCheckStep ==
    \A e \in Executions("compliance") :
        (Steps("compliance", e) /\ e.pc = "update" /\ ~e.passed)
           => /\ job_postings'[e.task.jobId].status = "Drafting"
              /\ followups' = followups
              /\ waiting' = waiting
              /\ running' = Finish("compliance", e)

\* C19: a Compliance execution whose check does not pass sets the status to
\* Drafting, inserts no FollowUp row and enqueues nothing; afterwards no
\* step of the pipeline takes that posting out of Drafting.
C19_FailedCheckOutcome ==
    [][/\ FailedCheckStep
       /\ \A id \in PostingIds :
             (id \in rejected /\ job_postings[id].status = "Drafting")
                => job_postings'[id].status = "Drafting"]_vars

\* C20: outside the broker's redeliveries and retries, a task is put in a
\* queue one at a time and only by the enqueue step of the stage before:
\* a Scout task by the scheduler, a Normalize task by a Scout execution for
\* the row its INSERT returned, a FitScore task by a Normalize execution
\* for the same posting after its update, a Materials task by a FitScore
\* execution for the posting that persisted Shortlisted, a Compliance task
\* by a Materials execution for the posting after its ResumeVersion and an
\* Application are in the store; no other queue changes in that step.
C20_StageOrdering ==
    [][redeliveries' = redeliveries
          => \A q \in Queues : \A t \in BagToSet(waiting'[q]) :
                CopiesIn(t, waiting'[q]) > CopiesIn(t, waiting[q])
                   => /\ CopiesIn(t, waiting'[q]) = CopiesIn(t, waiting[q]) + 1
                      /\ \A p \in Queues \ {q} : waiting'[p] = waiting[p]
                      /\ CASE q = "scout" ->
                                fired' = fired + 1 /\ running' = running
                           [] q = "normalize" ->
                                \E e \in At("scout", "enqueue") :
                                    /\ Steps("scout", e)
                                    /\ e.rowId = t.jobId /\ t.jobId \in PostingIds
                           [] q = "fit-score" ->
                                \E e \in At("normalize", "enqueue") :
                                    /\ Steps("normalize", e)
                                    /\ e.task.jobId = t.jobId /\ t.jobId \in PostingIds
                           [] q = "materials" ->
                                \E e \in At("fit-score", "enqueue") :
                                    /\ Steps("fit-score", e)
                                    /\ e.task.jobId = t.jobId /\ t.jobId \in PostingIds
                                    /\ e.newStatus = "Shortlisted"
                                    /\ job_postings[t.jobId].fit_score # Missing
                           [] q = "compliance" ->
                                \E e \in At("materials", "enqueue") :
                                    /\ Steps("materials", e)
                                    /\ e.task.jobId = t.jobId
                                    /\ t.resumeVersionId = e.resumeVersionId
                                    /\ e.resumeVersionId \in ResumeVersionsOf(t.jobId)
                                    /\ ApplicationsOf(t.jobId) # {}]_vars

\* a Compliance task waits for a posting that went through every stage
\* once, with nothing redelivered and nothing failed
C20_Witness ==
    \E id \in PostingIds :
        /\ NoFailure
        /\ Count(waiting["compliance"], id) = 1
        /\ \A q \in {"normalize", "fit-score", "materials"} : <<q, id>> \in delivered
        /\ job_postings[id].status = "Drafting"
        /\ HasMaterials(id)

\* where each handler awaits its reasoning call
CallPc(q) ==
    CASE q = "normalize" -> "select"
      [] q = "fit-score" -> "select"
      [] q = "materials" -> "resume"
      [] q = "compliance" -> "check"

\* the reasoning call of execution e is the first call of the run to fail
CallFails(q, e) ==
    /\ e \in At(q, CallPc(q))
    /\ CopiesIn(e, running'[q]) < CopiesIn(e, running[q])
    /\ "error" \in failed' \ failed

\* C21: when the reasoning call of a Normalize, FitScore, Materials or
\* Compliance execution fails, the execution is over and the failure is
\* with the broker, which puts the task back in its own queue or gives it
\* up; the store is as it was and no other queue has changed.
C21_CallFailure ==
    [][\A q \in Queues \ {"scout"} : \A e \in Executions(q) :
          CallFails(q, e)
             => /\ running' = Remove(q, e)
                /\ store' = store
                /\ \A p \in Queues \ {q} : waiting'[p] = waiting[p]
                /\ \/ waiting' = Put(q, e.task) /\ redeliveries' = redeliveries + 1
                   \/ waiting' = waiting /\ redeliveries' = redeliveries]_vars

\* the FitScore call failed and the task is back in its queue: no score
\* is stored and no Materials task was enqueued
C21_Witness ==
    \E id \in PostingIds :
        /\ failed = {"error"} /\ redeliveries = 1
        /\ Count(waiting["fit-score"], id) = 1 /\ running["fit-score"] = EmptyBag
        /\ job_postings[id].fit_score = Missing
        /\ job_postings[id].status = "Discovered"
        /\ waiting["materials"] = EmptyBag /\ running["materials"] = EmptyBag

\* the reasoning call of Normalize execution e has resolved: e leaves its
\* call, and neither was the call rejected nor the execution redelivered
Responded(e) ==
    /\ e \in At("normalize", "select")
    /\ e.task.jobId \in PostingIds
    /\ CopiesIn(e, running'["normalize"]) < CopiesIn(e, running["normalize"])
    /\ "error" \notin failed'
    /\ ~(failed' = failed /\ redeliveries' # redeliveries)

\* C22: a Normalize execution that found its posting and whose reasoning
\* call resolved goes on to its enqueue with the posting's status as it
\* was, and its enqueue puts exactly one FitScore task for the posting in
\* the queue and ends the execution.
C22_NormalizeChains ==
    [][\A e \in Executions("normalize") :
          /\ Responded(e)
                => /\ [e EXCEPT !.pc = "enqueue"] \in BagToSet(running'["normalize"])
                   /\ job_postings'[e.task.jobId].status = job_postings[e.task.jobId].status
          /\ (e.pc = "enqueue" /\ Steps("normalize", e))
                => /\ waiting' = Put("fit-score", JobTask(e.task.jobId))
                   /\ job_postings' = job_postings
                   /\ running' = Remove("normalize", e)]_vars

\* C23: no step of a Compliance execution for a posting id that resolves
\* to no row inserts a FollowUp row or puts a task in a queue.
C23_MissingRecordCompliance ==
    [][\A e \in Executions("compliance") :
          (e.task.jobId \notin PostingIds /\ Steps("compliance", e))
             => followups' = followups /\ waiting' = waiting]_vars

\* C24: a posting that is Shortlisted, Drafting or ReadyForReview has a
\* stored fit score of at least 60, and an Archived posting has a stored
\* fit score below 60.
C24_StatusScoreConsistent ==
    \A id \in PostingIds :
        LET row == job_postings[id] IN
        /\ row.status \in {"Shortlisted", "Drafting", "ReadyForReview"}
              => row.fit_score # Missing /\ Geq(row.fit_score[1], Num(60))
        /\ row.status = "Archived"
              => row.fit_score # Missing /\ ~Geq(row.fit_score[1], Num(60))

\* C25: whenever no Compliance execution for a posting is in progress, the
\* posting has FollowUp rows only if its status is ReadyForReview.
C25_FollowupsOnlyWhenReady ==
    \A id \in PostingIds :
        (/\ ExecutionsFor("compliance", id) = {}
         /\ \E i \in Ids(followups) : followups[i].job_id = id)
           => job_postings[id].status = "ReadyForReview"

\* the Compliance tasks that are waiting or being executed
ComplianceTasks ==
    BagToSet(waiting["compliance"]) \cup {e.task : e \in Executions("compliance")}

\* C26: every Compliance task for a posting carries the resume version that
\* the posting's Application row refers to.
C26_TaskMatchesApplication ==
    \A t \in ComplianceTasks :
        t.jobId \in PostingIds
           => /\ ApplicationsOf(t.jobId) # {}
              /\ \A i \in ApplicationsOf(t.jobId) :
                    applications[i].resume_version_id = t.resumeVersionId

\* no task is waiting and no execution is in progress
Quiescent ==
    \A q \in Queues : waiting[q] = EmptyBag /\ running[q] = EmptyBag

\* C27: with the scheduler firing and the broker redelivering a bounded
\* number of times, the broker handing out every waiting task and every
\* handler running on, the pipeline comes to rest: from some point on every
\* queue is empty and no execution is in progress.
C27_Quiesces == <>[]Quiescent

\* the pipeline at rest after a posting went all the way through it, with
\* a redelivery on the way
C27_Witness ==
    /\ Quiescent
    /\ fired = MaxFires /\ redeliveries = MaxRedeliveries
    /\ \E id \in PostingIds : job_postings[id].status = "ReadyForReview"

====
